---- MODULE Spec2Model ----
(***************************************************************************)
(* tflite-metadump (src/src/main.rs): locate the TFLITE_METADATA buffer of *)
(* a model file, decode it and print it line by line.                      *)
(*                                                                         *)
(* An optional value (Rust's Option) is a sequence of length 0 or 1.       *)
(* A byte slice is a record [len, asMeta, asDet]: its length and what the  *)
(* flatbuffers verifier makes of it under each of the two schemas.         *)
(* A printed line is a record: `at` is the source line of its println!,   *)
(* `via` the source line of the call in main that led to it (0 for main's  *)
(* own lines), `ind` its number of leading spaces, `sub`/`item`/`inner`    *)
(* the loop indices it was printed under, `text`/`num` its value.          *)
(***************************************************************************)
EXTENDS Integers, Sequences, FiniteSets, TLC

VARIABLES argc, file, pc, entry, bytes, s, c, i, out, err, code, decoded

vars == <<argc, file, pc, entry, bytes, s, c, i, out, err, code, decoded>>

\* ---------------------------------------------------------------- bounds
MaxEntries == 2
MaxBuffers == 2
MaxFiles == 2
MaxSubgraphs == 2
MaxCustom == 2
MaxAnchors == 100

\* ------------------------------------------------------------- constants
PRINT == 24
\* usize arithmetic wraps modulo the word size in a release build; the model's
\* word is 30 bits wide (TLC's integers are 32-bit), far above every length.
UsizeModulus == 2^30

\* ---------------------------------------------------------------- values
None == <<>>
Some(x) == <<x>>
IsSome(o) == Len(o) = 1
IsNone(o) == Len(o) = 0
Opt(S) == {None} \cup {Some(x) : x \in S}
SeqsUpTo(S, n) == UNION {[1..k -> S] : k \in 0..n}

RECURSIVE Concat(_)
Concat(ss) == IF ss = <<>> THEN <<>> ELSE Head(ss) \o Concat(Tail(ss))

Maybe(cond, line) == IF cond THEN <<line>> ELSE <<>>

Line(at, via, ind, sub, item, inner, text, num) ==
    [at |-> at, via |-> via, ind |-> ind, sub |-> sub, item |-> item,
     inner |-> inner, text |-> text, num |-> num]

\* &[][..]
EmptyBytes == [len |-> 0, asMeta |-> None, asDet |-> None]

\* flatbuffers::root::<T>(bytes): Some(view) when the verifier accepts.
RootModel(f) == f.root
RootModelMetadata(b) == b.asMeta
RootObjectDetectorOptions(b) == b.asDet

\* impl fmt::Display for Indent: "  ".repeat(self.0), as a width.
IndentDisplay(indent) == 2 * indent
\* impl ops::Add<usize> for Indent
IndentAdd(indent, rhs) == indent + rhs

\* a - b on usize: the difference, or the wrapped value when a < b.
USub(a, b) == IF a >= b THEN a - b ELSE UsizeModulus - (b - a)
Underflows(a, b) == a < b

\* flatbuffers Vector::get(idx) asserts idx < len and panics otherwise.
VectorGetOk(len, idx) == idx < len

Min(S) == CHOOSE x \in S : \A y \in S : x <= y

\* ------------------------------------------------------ printing routines
UnwrapOr(o, dflt) == IF IsSome(o) THEN o[1] ELSE dflt

\* print_assoc_files: the lines of one file, then of the whole list.
AssocFileLines(indent, via, sub, item, k, f) ==
    LET w == IndentDisplay(indent) IN
       <<Line(196, via, w, sub, item, k, UnwrapOr(f.name, "<unnamed>"), 0)>>
    \o Maybe(IsSome(f.description),
             Line(198, via, w + 2, sub, item, k, UnwrapOr(f.description, ""), 0))
    \o <<Line(200, via, w + 2, sub, item, k, f.type, 0)>>
    \o Maybe(IsSome(f.locale),
             Line(202, via, w + 2, sub, item, k, UnwrapOr(f.locale, ""), 0))
    \o Maybe(IsSome(f.version),
             Line(204, via, w + 2, sub, item, k, UnwrapOr(f.version, ""), 0))

print_assoc_files(indent, via, sub, item, assoc) ==
    Concat([k \in 1..Len(assoc) |->
              AssocFileLines(indent, via, sub, item, k, assoc[k])])

\* print_proc
print_proc(indent, via, sub, item, proc) ==
    [k \in 1..Len(proc) |->
        Line(212, via, IndentDisplay(indent), sub, item, k, proc[k], 0)]

\* print_tensor_meta: the lines of one tensor, then of the whole list.
TensorLines(indent, via, sub, t, tens) ==
    LET w == IndentDisplay(indent) IN
       <<Line(170, via, w, sub, t, 0, UnwrapOr(tens.name, "<unnamed>"), 0)>>
    \o Maybe(IsSome(tens.description),
             Line(172, via, w + 2, sub, t, 0, UnwrapOr(tens.description, ""), 0))
    \o Maybe(IsSome(tens.dimension_names),
             Line(175, via, w + 2, sub, t, 0, UnwrapOr(tens.dimension_names, ""), 0))
    \o Maybe(IsSome(tens.content),
             Line(178, via, w + 2, sub, t, 0, UnwrapOr(tens.content, ""), 0))
    \o Maybe(IsSome(tens.stats),
             Line(181, via, w + 2, sub, t, 0, UnwrapOr(tens.stats, ""), 0))
    \o (IF IsSome(tens.associated_files)
        THEN <<Line(184, via, w + 2, sub, t, 0, "", Len(tens.associated_files[1]))>>
             \o print_assoc_files(IndentAdd(indent, 1), via, sub, t,
                                  tens.associated_files[1])
        ELSE <<>>)
    \o (IF IsSome(tens.process_units)
        THEN <<Line(188, via, w + 2, sub, t, 0, "", Len(tens.process_units[1]))>>
             \o print_proc(IndentAdd(indent, 1), via, sub, t, tens.process_units[1])
        ELSE <<>>)

print_tensor_meta(indent, via, sub, meta) ==
    Concat([t \in 1..Len(meta) |-> TensorLines(indent, via, sub, t, meta[t])])

\* main, lines 47-68: the top-level fields.
TopLevelLines(meta) ==
       Maybe(IsSome(meta.name), Line(48, 0, 0, 0, 0, 0, UnwrapOr(meta.name, ""), 0))
    \o Maybe(IsSome(meta.description),
             Line(51, 0, 0, 0, 0, 0, UnwrapOr(meta.description, ""), 0))
    \o Maybe(IsSome(meta.version),
             Line(54, 0, 0, 0, 0, 0, UnwrapOr(meta.version, ""), 0))
    \o Maybe(IsSome(meta.author),
             Line(57, 0, 0, 0, 0, 0, UnwrapOr(meta.author, ""), 0))
    \o Maybe(IsSome(meta.license),
             Line(60, 0, 0, 0, 0, 0, UnwrapOr(meta.license, ""), 0))
    \o Maybe(IsSome(meta.min_parser_version),
             Line(63, 0, 0, 0, 0, 0, UnwrapOr(meta.min_parser_version, ""), 0))
    \o (IF IsSome(meta.associated_files)
        THEN <<Line(66, 0, 0, 0, 0, 0, "", Len(meta.associated_files[1]))>>
             \o print_assoc_files(0, 67, 0, 0, meta.associated_files[1])
        ELSE <<>>)

\* Faulty variant: the subgraph's own list.
SubgraphOwnAssocFiles(meta, sub) == sub.associated_files

\* main, lines 76-79: the associated files printed under a subgraph.
SubgraphAssocFiles(meta, sub) == meta.associated_files

\* main, lines 96-107: one list of tensor groups.
GroupLines(at, k, groups) ==
    IF IsSome(groups)
    THEN <<Line(at, 0, 2, k, 0, 0, "", Len(groups[1]))>>
         \o [g \in 1..Len(groups[1]) |-> Line(at + 2, 0, 4, k, g, 0, groups[1][g], 0)]
    ELSE <<>>

\* main, lines 72-109: subgraph k up to the count of its custom entries.
SubgraphLines(meta, k, sub) ==
    LET assoc == SubgraphAssocFiles(meta, sub) IN
       <<Line(72, 0, 0, k, 0, 0, UnwrapOr(sub.name, "<unnamed>"), 0)>>
    \o Maybe(IsSome(sub.description),
             Line(74, 0, 2, k, 0, 0, UnwrapOr(sub.description, ""), 0))
    \o (IF IsSome(assoc)
        THEN <<Line(77, 0, 2, k, 0, 0, "", Len(assoc[1]))>>
             \o print_assoc_files(1, 78, k, 0, assoc[1])
        ELSE <<>>)
    \o (IF IsSome(sub.input_tensor_metadata)
        THEN <<Line(81, 0, 2, k, 0, 0, "", Len(sub.input_tensor_metadata[1]))>>
             \o print_tensor_meta(2, 82, k, sub.input_tensor_metadata[1])
        ELSE <<>>)
    \o (IF IsSome(sub.output_tensor_metadata)
        THEN <<Line(85, 0, 2, k, 0, 0, "", Len(sub.output_tensor_metadata[1]))>>
             \o print_tensor_meta(2, 86, k, sub.output_tensor_metadata[1])
        ELSE <<>>)
    \o (IF IsSome(sub.input_process_units)
        THEN <<Line(89, 0, 2, k, 0, 0, "", Len(sub.input_process_units[1]))>>
             \o print_proc(2, 90, k, 0, sub.input_process_units[1])
        ELSE <<>>)
    \o (IF IsSome(sub.output_process_units)
        THEN <<Line(93, 0, 2, k, 0, 0, "", Len(sub.output_process_units[1]))>>
             \o print_proc(2, 94, k, 0, sub.output_process_units[1])
        ELSE <<>>)
    \o GroupLines(97, k, sub.input_tensor_groups)
    \o GroupLines(103, k, sub.output_tensor_groups)
    \o Maybe(IsSome(sub.custom_metadata),
             Line(109, 0, 2, k, 0, 0, "", Len(UnwrapOr(sub.custom_metadata, <<>>))))

\* Faulty variant: any named entry matches.
IsAnyNamedEntry(m) == IsSome(m.name)

\* main, lines 32-34: the first metadata entry named TFLITE_METADATA.
IsMetadataEntry(m) == m.name = Some("TFLITE_METADATA")

FindEntry(entries) ==
    LET hits == {k \in 1..Len(entries) : IsMetadataEntry(entries[k])}
    IN  IF hits = {} THEN None ELSE Some(entries[Min(hits)])

\* Faulty variant: every named entry is handed to the detector decoder.
IsAnyName(name) == IsSome(name)

\* main, line 115: the name that selects the detector decoder.
IsDetectorName(name) == name = Some("DETECTOR_METADATA")

\* Faulty variant: a list of exactly PRINT anchors is truncated.
PrintsAllBelow(n) == n < PRINT

\* main, line 147: whether every anchor is printed.
PrintsAll(n) == n <= PRINT

\* Faulty variant: the tail starts a whole budget before the end.
TailStartWholeBudget(n) == USub(USub(n, 1), PRINT)

\* main, line 156: the first index of the tail range.
TailStart(n) == USub(USub(n, 1), PRINT \div 2)

\* main, line 155: the number on the summary line.
MoreCount(n) == USub(n, PRINT)

\* ---------------------------------------------------------------- inputs
File(name, description, type, locale, version) ==
    [name |-> name, description |-> description, type |-> type,
     locale |-> locale, version |-> version]

Tensor(name, description, dims, content, stats, files, units) ==
    [name |-> name, description |-> description, dimension_names |-> dims,
     content |-> content, stats |-> stats, associated_files |-> files,
     process_units |-> units]

Custom(name, data) == [name |-> name, data |-> data]

SubGraph(name, description, files, rest, custom) ==
    [name |-> name, description |-> description, associated_files |-> files,
     input_tensor_metadata |-> rest.input_tensor_metadata,
     output_tensor_metadata |-> rest.output_tensor_metadata,
     input_process_units |-> rest.input_process_units,
     output_process_units |-> rest.output_process_units,
     input_tensor_groups |-> rest.input_tensor_groups,
     output_tensor_groups |-> rest.output_tensor_groups,
     custom_metadata |-> custom]

Tree(scalars, files, subs) ==
    [name |-> scalars.name, description |-> scalars.description,
     version |-> scalars.version, author |-> scalars.author,
     license |-> scalars.license,
     min_parser_version |-> scalars.min_parser_version,
     associated_files |-> files, subgraph_metadata |-> subs]

Options(min, dec, ssd) ==
    [min_parser_version |-> min, tensors_decoding_options |-> dec,
     ssd_anchors_options |-> ssd]

\* An anchor list is its length; anchor k (from 0) is identified by k.
Ssd(fixed) == [fixed_anchors_schema |-> fixed]
Fixed(anchors) == [anchors |-> anchors]

Model(metadata, buffers) == [metadata |-> metadata, buffers |-> buffers]
Entry(name, buffer) == [name |-> name, buffer |-> buffer]
Buffer(data) == [data |-> data]

MetaBytes(tree) == [len |-> 64, asMeta |-> Some(tree), asDet |-> None]
DetBytes(options) == [len |-> 32, asMeta |-> None, asDet |-> Some(options)]
GarbageBytes == [len |-> 3, asMeta |-> None, asDet |-> None]

OptStr == Opt({"x"})

FileA == File(Some("labels.txt"), Some("labels"), "TENSOR_AXIS_LABELS",
              Some("en"), Some("1"))
FileB == File(None, None, "UNKNOWN", None, None)
FileC == File(Some("vocab.txt"), None, "VOCABULARY", None, Some("2"))
FileSamples == {FileA, FileB, FileC}
FileLists == SeqsUpTo(FileSamples, MaxFiles)

TensorA == Tensor(Some("image"), Some("input image"), Some("[h, w]"),
                  Some("ImageProperties"), Some("Stats"),
                  Some(<<FileC, FileB>>), Some(<<"NormalizationOptions">>))
TensorB == Tensor(None, None, None, None, None, None, None)
TensorC == Tensor(None, Some("scores"), None, None, Some("Stats"),
                  Some(<<>>), Some(<<>>))

NoRest == [input_tensor_metadata |-> None, output_tensor_metadata |-> None,
           input_process_units |-> None, output_process_units |-> None,
           input_tensor_groups |-> None, output_tensor_groups |-> None]
FullRest == [input_tensor_metadata |-> Some(<<TensorA, TensorB>>),
             output_tensor_metadata |-> Some(<<TensorC>>),
             input_process_units |-> Some(<<"NormalizationOptions">>),
             output_process_units |-> Some(<<"ScoreThresholdingOptions",
                                             "ScoreCalibrationOptions">>),
             input_tensor_groups |-> Some(<<"group0">>),
             output_tensor_groups |-> Some(<<"group1", "group2">>)]
MixedRest == [input_tensor_metadata |-> Some(<<>>),
              output_tensor_metadata |-> None,
              input_process_units |-> None,
              output_process_units |-> Some(<<>>),
              input_tensor_groups |-> Some(<<>>),
              output_tensor_groups |-> None]

NameOnly == [name |-> Some("model"), description |-> None, version |-> None,
             author |-> None, license |-> None, min_parser_version |-> None]
Scalars == [{"name", "description", "version", "author", "license",
             "min_parser_version"} -> OptStr]

SmallOptions == Options(Some("1.0"), None, Some(Ssd(Some(Fixed(Some(2))))))
CustomSamples ==
    {Custom(n, d) :
        n \in {None, Some("DETECTOR_METADATA"), Some("OTHER")},
        d \in {None, Some(GarbageBytes), Some(DetBytes(SmallOptions))}}
CustomLists == SeqsUpTo(CustomSamples, MaxCustom)
ShortCustomLists == SeqsUpTo(CustomSamples, 1)

SubSamples ==
    {SubGraph(None, None, None, NoRest, None),
     SubGraph(Some("main"), Some("graph"), Some(<<FileB>>), NoRest, Some(<<>>)),
     SubGraph(None, Some("graph"), Some(<<>>), MixedRest, None),
     SubGraph(Some("main"), None, Some(<<FileA, FileC>>), FullRest, None),
     SubGraph(Some("aux"), None, None, FullRest, None)}

\* Metadata trees: the scalar fields, the file lists and subgraphs, the custom
\* entries, the detector options.
ScalarTrees ==
    {Tree(sc, f, None) : sc \in Scalars, f \in {None, Some(<<FileA>>)}}
SubgraphTrees ==
    {Tree(NameOnly, f, sg) :
        f \in Opt(FileLists), sg \in Opt(SeqsUpTo(SubSamples, MaxSubgraphs))}
CustomSub(l) == SubGraph(Some("main"), None, None, NoRest, Some(l))
CustomTrees ==
    {Tree(NameOnly, None, Some(<<CustomSub(l)>>)) : l \in CustomLists}
    \cup {Tree(NameOnly, None, Some(<<CustomSub(l1), CustomSub(l2)>>)) :
            l1 \in ShortCustomLists, l2 \in ShortCustomLists}
AnchorOptions ==
    {Options(min, dec, ssd) :
        min \in OptStr, dec \in Opt({"TensorsDecodingOptions"}),
        ssd \in {None, Some(Ssd(None)), Some(Ssd(Some(Fixed(None))))}
                \cup {Some(Ssd(Some(Fixed(Some(n))))) : n \in 0..MaxAnchors}}
AnchorTrees ==
    {Tree(NameOnly, None,
          Some(<<CustomSub(<<Custom(Some("DETECTOR_METADATA"),
                                    Some(DetBytes(o)))>>)>>)) :
        o \in AnchorOptions}

SmallTree == Tree(NameOnly, None, None)

\* Root containers: every list of entries and of buffers, around a small tree.
EntrySamples ==
    {Entry(None, 0), Entry(Some("OTHER"), 0)}
    \cup {Entry(Some("TFLITE_METADATA"), b) : b \in 0..2}
BufferSamples ==
    {Buffer(None), Buffer(Some(GarbageBytes)), Buffer(Some(MetaBytes(SmallTree)))}
LocatorModels ==
    {Model(m, b) : m \in Opt(SeqsUpTo(EntrySamples, MaxEntries)),
                   b \in Opt(SeqsUpTo(BufferSamples, MaxBuffers))}

ModelOf(tree) ==
    Model(Some(<<Entry(Some("min_runtime_version"), 0),
                 Entry(Some("TFLITE_METADATA"), 1)>>),
          Some(<<Buffer(None), Buffer(Some(MetaBytes(tree)))>>))

Input(n, readable, root) ==
    [argc |-> n, file |-> [readable |-> readable, root |-> root]]

Inputs ==
    {Input(n, r, root) : n \in 0..2, r \in BOOLEAN,
                         root \in {None, Some(ModelOf(SmallTree))}}
    \cup {Input(1, TRUE, Some(m)) : m \in LocatorModels}
    \cup {Input(1, TRUE, Some(ModelOf(t))) :
            t \in ScalarTrees \cup SubgraphTrees \cup CustomTrees \cup AnchorTrees}

\* ----------------------------------------------------------------- state
Tflite == file.root[1]
Meta == RootModelMetadata(bytes)[1]
Subs == Meta.subgraph_metadata[1]
Sub == Subs[s]
Customs == Sub.custom_metadata[1]
CustomEntry == Customs[c]
\* main, line 111: custom.data().map_or(&[][..], |v| v.bytes())
CustomBytes == UnwrapOr(CustomEntry.data, EmptyBytes)
DetectorOptions == RootObjectDetectorOptions(CustomBytes)[1]
AnchorCount == DetectorOptions.ssd_anchors_options[1].fixed_anchors_schema[1].anchors[1]

Init ==
    /\ \E in \in Inputs : argc = in.argc /\ file = in.file
    /\ pc = "start"
    /\ entry = None
    /\ bytes = EmptyBytes
    /\ s = 0
    /\ c = 0
    /\ i = 0
    /\ out = <<>>
    /\ err = ""
    /\ code = -1
    /\ decoded = {}

\* main returns Err(e): the message goes to the error stream, the exit code is 1.
Fail(msg) == pc' = "exited" /\ err' = msg /\ code' = 1
\* A panic: the message goes to the error stream, the exit code is 101.
Panic(msg) == pc' = "exited" /\ err' = msg /\ code' = 101
Goto(l) == pc' = l /\ UNCHANGED <<err, code>>

\* The end of one subgraph's iteration (line 125) and of one custom entry's (123).
NextSubgraph ==
    IF s < Len(Subs)
    THEN pc' = "sub" /\ s' = s + 1 /\ c' = 0
    ELSE pc' = "finish" /\ s' = s /\ c' = 0

NextCustom ==
    IF c < Len(Customs)
    THEN pc' = "entry" /\ s' = s /\ c' = c + 1
    ELSE NextSubgraph

\* main, lines 21-25
ReadArgs ==
    /\ pc = "start"
    /\ IF argc # 1 THEN Fail("usage: tflite-metadump <model.tflite>")
       ELSE IF ~file.readable THEN Fail("io error")
       ELSE Goto("root")
    /\ UNCHANGED <<argc, file, entry, bytes, s, c, i, out, decoded>>

\* main, line 27
DecodeRoot ==
    /\ pc = "root"
    /\ IF IsNone(RootModel(file)) THEN Fail("invalid flatbuffer: model")
       ELSE Goto("locate")
    /\ UNCHANGED <<argc, file, entry, bytes, s, c, i, out, decoded>>

\* main, line 36: the message (its backquotes written as apostrophes).
MetadataEntryNotFound == "model contains no 'TFLITE_METADATA' entry"
\* main, line 29
NoMetadataEntries == "model contains no metadata entries"

\* main, lines 28-37
LocateMetadata ==
    /\ pc = "locate"
    /\ IF IsNone(Tflite.metadata)
       THEN Fail(NoMetadataEntries) /\ entry' = None
       ELSE LET found == FindEntry(Tflite.metadata[1]) IN
            IF IsNone(found)
            THEN Fail(MetadataEntryNotFound) /\ entry' = None
            ELSE Goto("resolve") /\ entry' = found
    /\ UNCHANGED <<argc, file, bytes, s, c, i, out, decoded>>

\* main, lines 39-44
ResolveBuffer ==
    /\ pc = "resolve"
    /\ IF IsNone(Tflite.buffers)
       THEN Fail("model contains no buffer list") /\ bytes' = bytes
       ELSE LET buffers == Tflite.buffers[1]
                idx == entry[1].buffer
            IN  IF ~VectorGetOk(Len(buffers), idx)
                THEN Panic("assertion failed: idx < self.len()") /\ bytes' = bytes
                ELSE /\ Goto("decode")
                     /\ bytes' = UnwrapOr(buffers[idx + 1].data, EmptyBytes)
    /\ UNCHANGED <<argc, file, entry, s, c, i, out, decoded>>

\* main, line 46
DecodeMetadata ==
    /\ pc = "decode"
    /\ IF IsNone(RootModelMetadata(bytes)) THEN Fail("invalid flatbuffer: metadata")
       ELSE Goto("top")
    /\ UNCHANGED <<argc, file, entry, bytes, s, c, i, out, decoded>>

\* main, lines 47-70
PrintTopLevel ==
    /\ pc = "top"
    /\ IF IsSome(Meta.subgraph_metadata)
       THEN /\ out' = out \o TopLevelLines(Meta)
                      \o <<Line(70, 0, 0, 0, 0, 0, "", Len(Subs))>>
            /\ IF Len(Subs) > 0 THEN pc' = "sub" /\ s' = 1 ELSE pc' = "finish" /\ s' = 0
       ELSE /\ out' = out \o TopLevelLines(Meta)
            /\ pc' = "finish" /\ s' = 0
    /\ UNCHANGED <<argc, file, entry, bytes, c, i, err, code, decoded>>

\* main, lines 71-109
PrintSubgraph ==
    /\ pc = "sub"
    /\ out' = out \o SubgraphLines(Meta, s, Sub)
    /\ IF IsSome(Sub.custom_metadata) /\ Len(Customs) > 0
       THEN pc' = "entry" /\ s' = s /\ c' = 1
       ELSE NextSubgraph
    /\ UNCHANGED <<argc, file, entry, bytes, i, err, code, decoded>>

\* main, lines 110-122
PrintCustomEntry ==
    /\ pc = "entry"
    /\ LET head == <<Line(112, 0, 4, s, c, 0, UnwrapOr(CustomEntry.name, "<unnamed>"), 0),
                     Line(113, 0, 6, s, c, 0, "", CustomBytes.len)>>
       IN  IF IsDetectorName(CustomEntry.name)
           THEN /\ out' = out \o head
                /\ pc' = "detector" /\ UNCHANGED <<s, c>>
           ELSE /\ out' = out \o head \o <<Line(121, 0, 6, s, c, 0, "", 0)>>
                /\ NextCustom
    /\ UNCHANGED <<argc, file, entry, bytes, i, err, code, decoded>>

\* Faulty variant: the decode error is propagated out of main.
DecodeDetectorPropagating ==
    /\ pc = "detector"
    /\ decoded' = decoded \cup {<<s, c>>}
    /\ IF IsNone(RootObjectDetectorOptions(CustomBytes))
       THEN Fail("invalid flatbuffer") /\ UNCHANGED <<s, c>>
       ELSE pc' = "options" /\ UNCHANGED <<s, c, err, code>>
    /\ UNCHANGED <<argc, file, entry, bytes, i, out>>

\* main, lines 117-119 and decode_and_print_detector_metadata, lines 131-132
DecodeDetector ==
    /\ pc = "detector"
    /\ decoded' = decoded \cup {<<s, c>>}
    /\ IF IsNone(RootObjectDetectorOptions(CustomBytes))
       THEN /\ out' = out \o <<Line(118, 0, 6, s, c, 0, "invalid flatbuffer", 0)>>
            /\ NextCustom
       ELSE /\ out' = out
            /\ pc' = "options" /\ UNCHANGED <<s, c>>
    /\ UNCHANGED <<argc, file, entry, bytes, i, err, code>>

\* decode_and_print_detector_metadata, lines 133-147
PrintDetectorOptions ==
    /\ pc = "options"
    /\ LET o == DetectorOptions
           w == IndentDisplay(3)
           ssd == o.ssd_anchors_options
           fixed == IF IsSome(ssd) THEN ssd[1].fixed_anchors_schema ELSE None
           anchors == IF IsSome(fixed) THEN fixed[1].anchors ELSE None
           lines ==
                  Maybe(IsSome(o.min_parser_version),
                        Line(134, 117, w, s, c, 0, UnwrapOr(o.min_parser_version, ""), 0))
               \o Maybe(IsSome(o.tensors_decoding_options),
                        Line(137, 117, w, s, c, 0,
                             UnwrapOr(o.tensors_decoding_options, ""), 0))
               \o Maybe(IsSome(ssd), Line(140, 117, w, s, c, 0, "", 0))
               \o Maybe(IsSome(fixed), Line(142, 117, w + 2, s, c, 0, "", 0))
               \o Maybe(IsSome(anchors),
                        Line(146, 117, w + 4, s, c, 0, "", UnwrapOr(anchors, 0)))
       IN  /\ out' = out \o lines
           /\ IF IsNone(anchors) THEN NextCustom
              ELSE /\ pc' = (IF PrintsAll(anchors[1]) THEN "all" ELSE "head")
                   /\ UNCHANGED <<s, c>>
    /\ i' = 0
    /\ UNCHANGED <<argc, file, entry, bytes, err, code, decoded>>

AnchorLine(at, idx) == Line(at, 117, IndentDisplay(3) + 4, s, c, 0, "", idx)

\* decode_and_print_detector_metadata, lines 148-150
PrintAnchorAll ==
    /\ pc = "all"
    /\ IF i < AnchorCount
       THEN /\ out' = out \o <<AnchorLine(149, i)>>
            /\ i' = i + 1
            /\ UNCHANGED <<pc, s, c>>
       ELSE /\ out' = out
            /\ i' = 0
            /\ NextCustom
    /\ UNCHANGED <<argc, file, entry, bytes, err, code, decoded>>

\* decode_and_print_detector_metadata, lines 152-154
PrintAnchorHead ==
    /\ pc = "head"
    /\ IF i < PRINT \div 2 /\ i < AnchorCount
       THEN /\ out' = out \o <<AnchorLine(153, i)>>
            /\ i' = i + 1
            /\ pc' = pc
       ELSE /\ out' = out
            /\ i' = 0
            /\ pc' = "summary"
    /\ UNCHANGED <<argc, file, entry, bytes, s, c, err, code, decoded>>

\* decode_and_print_detector_metadata, lines 155-156: a subtraction that
\* underflows panics in a build with overflow checks and wraps in one without.
PrintSummary ==
    /\ pc = "summary"
    /\ \E checked \in BOOLEAN :
          IF checked /\ (\/ Underflows(AnchorCount, PRINT)
                         \/ Underflows(AnchorCount, 1)
                         \/ Underflows(USub(AnchorCount, 1), PRINT \div 2))
          THEN /\ Panic("attempt to subtract with overflow")
               /\ UNCHANGED <<out, i>>
          ELSE /\ out' = out \o <<AnchorLine(155, MoreCount(AnchorCount))>>
               /\ i' = TailStart(AnchorCount)
               /\ pc' = "tail"
               /\ UNCHANGED <<err, code>>
    /\ UNCHANGED <<argc, file, entry, bytes, s, c, decoded>>

\* decode_and_print_detector_metadata, lines 156-159
PrintAnchorTail ==
    /\ pc = "tail"
    /\ IF i < AnchorCount
       THEN IF VectorGetOk(AnchorCount, i)
            THEN /\ out' = out \o <<AnchorLine(158, i)>>
                 /\ i' = i + 1
                 /\ UNCHANGED <<pc, s, c, err, code>>
            ELSE /\ Panic("assertion failed: idx < self.len()")
                 /\ UNCHANGED <<out, i, s, c>>
       ELSE /\ out' = out
            /\ i' = 0
            /\ NextCustom
            /\ UNCHANGED <<err, code>>
    /\ UNCHANGED <<argc, file, entry, bytes, decoded>>

\* main, line 128
Finish ==
    /\ pc = "finish"
    /\ pc' = "exited"
    /\ code' = 0
    /\ UNCHANGED <<argc, file, entry, bytes, s, c, i, out, err, decoded>>

Next ==
    \/ ReadArgs
    \/ DecodeRoot
    \/ LocateMetadata
    \/ ResolveBuffer
    \/ DecodeMetadata
    \/ PrintTopLevel
    \/ PrintSubgraph
    \/ PrintCustomEntry
    \/ DecodeDetector
    \/ PrintDetectorOptions
    \/ PrintAnchorAll
    \/ PrintAnchorHead
    \/ PrintSummary
    \/ PrintAnchorTail
    \/ Finish

Spec == Init /\ [][Next]_vars

\* ---------------------------------------------------------------- claims
Decoded == IsSome(RootModelMetadata(bytes))
SubsOf == IF Decoded /\ IsSome(Meta.subgraph_metadata) THEN Subs ELSE <<>>
CustomsOf(k) == UnwrapOr(SubsOf[k].custom_metadata, <<>>)
AllEntries ==
    UNION {{<<k, j>> : j \in 1..Len(CustomsOf(k))} : k \in 1..Len(SubsOf)}
BytesOf(e) == UnwrapOr(e.data, EmptyBytes)

LinesAt(ats, k, j) ==
    SelectSeq(out, LAMBDA l : l.at \in ats /\ l.sub = k /\ l.item = j)
Nums(ls) == [m \in 1..Len(ls) |-> ls[m].num]
Ats(ls) == [m \in 1..Len(ls) |-> ls[m].at]
Range(a, b) == [m \in 1..(b - a) |-> a + m - 1]
PosOf(at, k, j) ==
    {m \in 1..Len(out) : out[m].at = at /\ out[m].sub = k /\ out[m].item = j}

\* The rendering of custom entry j of subgraph k has started / is over.
Printed(k, j) == PosOf(112, k, j) # {}
Over(k, j) ==
    /\ Printed(k, j)
    /\ \/ pc \in {"finish", "exited"}
       \/ s > k
       \/ s = k /\ c > j
SubPrinted(k) == PosOf(72, k, 0) # {}

\* The anchor list of custom entry e, when it is decoded and has one.
AnchorsOf(e) ==
    LET o == RootObjectDetectorOptions(BytesOf(e))
        ssd == IF IsSome(o) THEN o[1].ssd_anchors_options ELSE None
        fixed == IF IsSome(ssd) THEN ssd[1].fixed_anchors_schema ELSE None
    IN  IF IsSome(fixed) THEN fixed[1].anchors ELSE None
IsDetector(e) == e.name = <<"DETECTOR_METADATA">>
HasAnchors(k, j) ==
    IsDetector(CustomsOf(k)[j]) /\ IsSome(AnchorsOf(CustomsOf(k)[j]))
N(k, j) == AnchorsOf(CustomsOf(k)[j])[1]

RootOk == argc = 1 /\ file.readable /\ IsSome(file.root)
NamedEntries ==
    IF RootOk /\ IsSome(Tflite.metadata)
    THEN {m \in 1..Len(Tflite.metadata[1]) :
            Tflite.metadata[1][m].name = <<"TFLITE_METADATA">>}
    ELSE {}
FoundEntry == Tflite.metadata[1][Min(NamedEntries)]

\* C1 (as claimed): once the TFLITE_METADATA entry is found and a buffer list
\* exists, resolving the buffer index never crashes; an index beyond the pool or
\* a buffer without data gives the empty payload, and the run ends at the
\* metadata decode stage with its decode error.
C1_ResolveNeverFails ==
    (RootOk /\ NamedEntries # {} /\ IsSome(Tflite.buffers))
    => LET buffers == Tflite.buffers[1]
           idx == FoundEntry.buffer
           empty == idx >= Len(buffers) \/ IsNone(buffers[idx + 1].data)
       IN  /\ code # 101
           /\ (empty /\ pc = "decode") => bytes = EmptyBytes
           /\ (empty /\ pc = "exited")
                => bytes = EmptyBytes /\ code = 1
                   /\ err = "invalid flatbuffer: metadata"

\* C2 (as claimed): a well-formed container without a TFLITE_METADATA entry
\* fails with the MetadataEntryNotFound message and a non-zero exit code, and
\* nothing is ever written to standard output.
C2_MissingEntryNotFound ==
    (RootOk /\ NamedEntries = {})
    => /\ out = <<>>
       /\ pc = "exited" => err = MetadataEntryNotFound /\ code = 1

\* C2 (amended): a well-formed container that has a metadata entry list in
\* which no entry is named TFLITE_METADATA fails with the MetadataEntryNotFound
\* message and a non-zero exit code, and nothing is ever written to standard
\* output.
C2_ListWithoutEntryNotFound ==
    (RootOk /\ IsSome(Tflite.metadata) /\ NamedEntries = {})
    => /\ out = <<>>
       /\ pc = "exited" => err = MetadataEntryNotFound /\ code = 1

C2_Witness ==
    /\ RootOk /\ IsSome(Tflite.metadata) /\ NamedEntries = {}
    /\ Len(Tflite.metadata[1]) = 2
    /\ IsNone(Tflite.buffers)
    /\ pc = "exited" /\ err = MetadataEntryNotFound /\ code = 1

\* C3: a DETECTOR_METADATA entry whose payload does not decode gets a
\* "decoding error" line right after its byte-length line and no detector
\* line; the failure is no top-level error; every later custom entry of the
\* subgraph and every later subgraph is still rendered, and the run exits 0.
BadDetector(k, j) ==
    /\ IsDetector(CustomsOf(k)[j])
    /\ IsNone(RootObjectDetectorOptions(BytesOf(CustomsOf(k)[j])))

C3_DecodeErrorIsLocal ==
    \A e \in AllEntries :
        LET k == e[1]
            j == e[2]
        IN  (BadDetector(k, j) /\ Over(k, j))
            => /\ \E m \in PosOf(112, k, j) :
                    /\ m + 2 <= Len(out)
                    /\ Ats(SubSeq(out, m, m + 2)) = <<112, 113, 118>>
                    /\ \A q \in m..(m + 2) : out[q].sub = k /\ out[q].item = j
                    /\ out[m + 1].num = BytesOf(CustomsOf(k)[j]).len
               /\ Len(LinesAt({112, 113, 118}, k, j)) = 3
               /\ \A l \in 1..Len(out) :
                    (out[l].sub = k /\ out[l].item = j) => out[l].via # 117
               /\ err = "" /\ code \in {-1, 0}
               /\ pc = "exited"
                    => /\ code = 0
                       /\ \A j2 \in (j + 1)..Len(CustomsOf(k)) :
                            /\ Ats(LinesAt({112, 113}, k, j2)) = <<112, 113>>
                            /\ \A a \in PosOf(112, k, j) :
                                 \A b \in PosOf(112, k, j2) : a < b
                       /\ \A k2 \in (k + 1)..Len(SubsOf) :
                            /\ Len(LinesAt({72}, k2, 0)) = 1
                            /\ \A j2 \in 1..Len(CustomsOf(k2)) :
                                 Ats(LinesAt({112, 113}, k2, j2)) = <<112, 113>>

C3_Witness ==
    /\ pc = "exited"
    /\ Len(SubsOf) = 2
    /\ Len(CustomsOf(1)) = 1 /\ BadDetector(1, 1) /\ Over(1, 1)
    /\ Len(CustomsOf(2)) = 1 /\ Printed(2, 1)

\* C4: a custom entry whose name is not exactly DETECTOR_METADATA (an absent
\* name included) gets its name line, its byte-length line and then the
\* "(unknown or unhandled format)" line, and the detector decoder is never
\* invoked on its bytes.
C4_UnknownTagNeverDecoded ==
    \A e \in AllEntries :
        LET k == e[1]
            j == e[2]
        IN  CustomsOf(k)[j].name # <<"DETECTOR_METADATA">>
            => /\ <<k, j>> \notin decoded
               /\ \A l \in 1..Len(out) :
                    (out[l].sub = k /\ out[l].item = j) => out[l].via # 117
               /\ Printed(k, j)
                    => /\ Ats(LinesAt({112, 113, 118, 121}, k, j)) = <<112, 113, 121>>
                       /\ \A m \in PosOf(112, k, j) :
                            /\ m + 2 <= Len(out)
                            /\ Ats(SubSeq(out, m, m + 2)) = <<112, 113, 121>>
                            /\ out[m].text = UnwrapOr(CustomsOf(k)[j].name, "<unnamed>")
                            /\ out[m + 1].num = BytesOf(CustomsOf(k)[j]).len

C4_Witness ==
    /\ pc = "exited"
    /\ \E e \in AllEntries :
         /\ IsNone(CustomsOf(e[1])[e[2]].name)
         /\ IsSome(RootObjectDetectorOptions(BytesOf(CustomsOf(e[1])[e[2]])))
         /\ Printed(e[1], e[2])
    /\ \E e \in AllEntries :
         /\ CustomsOf(e[1])[e[2]].name = <<"OTHER">>
         /\ Printed(e[1], e[2])

\* C5: under every subgraph the associated-file count and listing are those of
\* the top-level list, one level deeper, whatever the subgraph's own list is;
\* they are printed if and only if the top-level list is present.
Listing(via, k) == SelectSeq(out, LAMBDA l : l.via = via /\ l.sub = k)
Proj(ls) == [m \in 1..Len(ls) |-> <<ls[m].at, ls[m].inner, ls[m].text>>]

C5_SubgraphFilesAreTopLevel ==
    \A k \in 1..Len(SubsOf) :
        SubPrinted(k)
        => LET top == Meta.associated_files
               hdr == LinesAt({77}, k, 0)
               under == Listing(78, k)
               first == Listing(67, 0)
           IN  IF IsNone(top)
               THEN hdr = <<>> /\ under = <<>>
               ELSE /\ Nums(hdr) = <<Len(top[1])>>
                    /\ Proj(under) = Proj(first)
                    /\ \A m \in 1..Len(under) : under[m].ind = first[m].ind + 2
                    /\ LET names == SelectSeq(under, LAMBDA l : l.at = 196)
                       IN  /\ Len(names) = Len(top[1])
                           /\ \A m \in 1..Len(names) :
                                names[m].text = UnwrapOr(top[1][m].name, "<unnamed>")

C5_Witness ==
    /\ pc = "exited"
    /\ Len(SubsOf) = 2
    /\ IsSome(Meta.associated_files) /\ Len(Meta.associated_files[1]) = 2
    /\ IsSome(SubsOf[1].associated_files)
    /\ SubsOf[1].associated_files # Meta.associated_files
    /\ IsNone(SubsOf[2].associated_files)
    /\ SubPrinted(1) /\ SubPrinted(2)

\* C6 (as claimed): in a complete report every present optional field appears
\* exactly once and every absent optional field produces no line, the fields
\* in the renderer's fixed order.
TopFields ==
    {<<"name", 48>>, <<"description", 51>>, <<"version", 54>>, <<"author", 57>>,
     <<"license", 60>>, <<"min_parser_version", 63>>, <<"associated_files", 66>>,
     <<"subgraph_metadata", 70>>}
SubFields ==
    {<<"description", 74>>, <<"associated_files", 77>>,
     <<"input_tensor_metadata", 81>>, <<"output_tensor_metadata", 85>>,
     <<"input_process_units", 89>>, <<"output_process_units", 93>>,
     <<"input_tensor_groups", 97>>, <<"output_tensor_groups", 103>>,
     <<"custom_metadata", 109>>}
TensorFields ==
    {<<"description", 172>>, <<"dimension_names", 175>>, <<"content", 178>>,
     <<"stats", 181>>, <<"associated_files", 184>>, <<"process_units", 188>>}
TensorLists == {<<"input_tensor_metadata", 82>>, <<"output_tensor_metadata", 86>>}
Once(present, ls) == Len(ls) = (IF present THEN 1 ELSE 0)
Headers ==
    SelectSeq(out, LAMBDA l : l.via = 0 /\ l.item = 0
                              /\ l.at \in {f[2] : f \in TopFields \cup SubFields} \cup {72})

C6_EveryPresentFieldOnce ==
    (pc = "exited" /\ code = 0)
    => /\ \A f \in TopFields : Once(IsSome(Meta[f[1]]), LinesAt({f[2]}, 0, 0))
       /\ \A k \in 1..Len(SubsOf) :
            /\ IsSome(SubsOf[k].name) => Len(LinesAt({72}, k, 0)) = 1
            /\ \A f \in SubFields :
                 Once(IsSome(SubsOf[k][f[1]]), LinesAt({f[2]}, k, 0))
            /\ \A tl \in TensorLists :
                 \A t \in 1..Len(UnwrapOr(SubsOf[k][tl[1]], <<>>)) :
                   \A f \in TensorFields :
                     Once(IsSome(SubsOf[k][tl[1]][1][t][f[1]]),
                          SelectSeq(out, LAMBDA l : /\ l.at = f[2] /\ l.via = tl[2]
                                                    /\ l.sub = k /\ l.item = t))
       /\ \A m \in 1..(Len(Headers) - 1) :
            \/ Headers[m].sub < Headers[m + 1].sub
            \/ Headers[m].sub = Headers[m + 1].sub /\ Headers[m].at < Headers[m + 1].at

\* C7: an anchor list of length 0 <= n <= 24 is printed in full, each anchor
\* once and in index order, and no summary line is printed.
AnchorAts == {149, 153, 158}

C7_ShortListPrintedInFull ==
    \A e \in AllEntries :
        LET k == e[1]
            j == e[2]
        IN  (HasAnchors(k, j) /\ N(k, j) <= 24 /\ Printed(k, j))
            => LET nums == Nums(LinesAt(AnchorAts, k, j))
               IN  /\ LinesAt({155}, k, j) = <<>>
                   /\ Len(nums) <= N(k, j)
                   /\ nums = Range(0, Len(nums))
                   /\ Over(k, j) => nums = Range(0, N(k, j))

C7_Witness ==
    /\ pc = "exited"
    /\ \E e \in AllEntries :
         /\ HasAnchors(e[1], e[2]) /\ N(e[1], e[2]) = 24 /\ Over(e[1], e[2])
         /\ Len(LinesAt(AnchorAts, e[1], e[2])) = 24

\* The anchor lines of entry (k, j) before and after its summary line.
SummaryPos(k, j) == CHOOSE m \in PosOf(155, k, j) : TRUE
IsAnchorOf(l, k, j) == l.at \in AnchorAts /\ l.sub = k /\ l.item = j
Before(k, j) ==
    SelectSeq(SubSeq(out, 1, SummaryPos(k, j) - 1), LAMBDA l : IsAnchorOf(l, k, j))
After(k, j) ==
    SelectSeq(SubSeq(out, SummaryPos(k, j) + 1, Len(out)),
              LAMBDA l : IsAnchorOf(l, k, j))

\* C8 (as claimed): for a list of n > 24 anchors, the anchors printed after
\* the summary line are exactly the last 12, in index order.
C8_TailIsLastTwelve ==
    \A e \in AllEntries :
        LET k == e[1]
            j == e[2]
        IN  (HasAnchors(k, j) /\ N(k, j) > 24 /\ Over(k, j))
            => /\ PosOf(155, k, j) # {}
               /\ Nums(After(k, j)) = Range(N(k, j) - 12, N(k, j))

\* C9 (as claimed): for a list of n > 24 anchors, exactly the first 12 are
\* printed in order, then exactly one summary line, whose number is the number
\* of anchors of the list that the listing does not print.
C9_SummaryCountsOmitted ==
    \A e \in AllEntries :
        LET k == e[1]
            j == e[2]
        IN  (HasAnchors(k, j) /\ N(k, j) > 24 /\ Over(k, j))
            => /\ Cardinality(PosOf(155, k, j)) = 1
               /\ Nums(Before(k, j)) = Range(0, 12)
               /\ IsAnchorOf(out[SummaryPos(k, j) - 1], k, j)
               /\ LET shown == {l.num : l \in {out[m] : m \in
                                   {q \in 1..Len(out) : IsAnchorOf(out[q], k, j)}}}
                  IN  out[SummaryPos(k, j)].num = N(k, j) - Cardinality(shown)

\* C10: in the truncated branch (n > 24) no subtraction underflows: the number
\* on the summary line is n - 24 and the tail starts at n - 13 >= 12; every
\* index read is within [0, n); the head indices [0, 12) and the tail indices
\* are disjoint, so no anchor is printed twice.
C10_TruncatedArithmeticSafe ==
    /\ err # "attempt to subtract with overflow"
    /\ Decoded => code # 101
    /\ \A e \in AllEntries :
        LET k == e[1]
            j == e[2]
        IN  (HasAnchors(k, j) /\ N(k, j) > 24 /\ Printed(k, j))
            => LET n == N(k, j)
                   head == Nums(LinesAt({153}, k, j))
                   tail == Nums(LinesAt({158}, k, j))
                   all == Nums(LinesAt(AnchorAts, k, j))
               IN  /\ LinesAt({149}, k, j) = <<>>
                   /\ \A m \in PosOf(155, k, j) : out[m].num = n - 24 /\ n - 24 >= 1
                   /\ (s = k /\ c = j /\ pc = "tail")
                        => i = n - 13 + Len(tail) /\ i <= n /\ n - 13 >= 12
                   /\ \A m \in 1..Len(all) : 0 <= all[m] /\ all[m] < n
                   /\ \A m \in 1..Len(head) : head[m] < 12
                   /\ \A m \in 1..Len(tail) : tail[m] >= 12
                   /\ Cardinality({all[m] : m \in 1..Len(all)}) = Len(all)

C10_Witness ==
    /\ pc = "exited"
    /\ \E e \in AllEntries :
         /\ HasAnchors(e[1], e[2]) /\ N(e[1], e[2]) = 25 /\ Over(e[1], e[2])
         /\ Len(LinesAt({158}, e[1], e[2])) > 0

====
